---- MODULE Spec2Model ----
(***************************************************************************)
(* A model of coinbase/agentkit's Python action providers and wallet      *)
(* providers.                                                              *)
(*                                                                         *)
(* Every operation of the repository is a synchronous call: the state is   *)
(* the last invocation (its name, its arguments and its outcome), the      *)
(* network the wallet is on, and the log of the calls the invocation made  *)
(* to its collaborators (the wallet provider, the smart wallet, the        *)
(* external SDK clients).                                                  *)
(*                                                                         *)
(* Python values are modelled with their type where the code compares      *)
(* values of different types: StrV(s), IntV(n).  Python strings that the  *)
(* code parses are sequences of one-character strings; strings that the    *)
(* code only formats are sequences of tokens, the literal word "Error"     *)
(* being a token of its own.                                               *)
(***************************************************************************)
EXTENDS Integers, Sequences, FiniteSets, TLC

VARIABLES
    op,       \* name of the last operation invoked, "none" after construction
    args,     \* the arguments of that invocation
    env,      \* what the collaborators answer during that invocation
    result,   \* its outcome: a returned value or a raised exception
    calls,    \* state-changing calls that invocation made, oldest first
    network,  \* the Network the wallet provider reports
    provider, \* the fields of the action provider instances (self.<field>)
    first,    \* history: the first action invocation made, where it is kept
    conversations,  \* the state of each ConversationHandler for the one user
    user_data,      \* context.user_data of that user
    script,   \* history: how far the user's inputs have followed the swap dialogue
    entered,  \* history: the valid dates entered in the date-range conversation
    files     \* the wallet data files in the working directory

vars == <<op, args, env, result, calls, network, provider, first,
          conversations, user_data, script, entered, files>>

\* the Telegram bot's state
botvars == <<conversations, user_data, script, entered>>

\* ------------------------------------------------------------------------
\* Bounds
\* ------------------------------------------------------------------------
MaxLen == 4          \* longest decimal string given to parse_units
MaxDecimals == 2     \* largest `decimals` given to parse_units

\* ------------------------------------------------------------------------
\* Python values and outcomes
\* ------------------------------------------------------------------------
None == [t |-> "NoneType"]
StrV(s) == [t |-> "str", v |-> s]
IntV(n) == [t |-> "int", v |-> n]

\* Python ==: values of different types are never equal.
PyEq(a, b) == a.t = b.t /\ (a.t = "NoneType" \/ a.v = b.v)

\* Python truthiness of None, str and int.
Truthy(a) == a.t # "NoneType" /\ (a.t = "str" => a.v # "") /\ (a.t = "int" => a.v # 0)

\* no provider instance is involved / the history is not kept
NoProviders == [t |-> "NoneType"]
NotKept == [kept |-> FALSE]

\* no Telegram bot is involved
NoBot ==
    /\ conversations = [t |-> "NoneType"]
    /\ user_data = [t |-> "NoneType"]
    /\ script = [t |-> "NoneType"]
    /\ entered = [t |-> "NoneType"]

\* no wallet data file is involved
NoFiles == files = [t |-> "NoneType"]

Return(v) == [kind |-> "return", value |-> v]
Raise(e, m) == [kind |-> "raise", exc |-> e, msg |-> m]
NoResult == [kind |-> "none"]

\* ------------------------------------------------------------------------
\* Strings as sequences of characters (str methods used by parse_units)
\* ------------------------------------------------------------------------
Digits == <<"0", "1", "2", "3", "4", "5", "6", "7", "8", "9">>

DigitChars == {Digits[i] : i \in 1..10}

DigitVal(c) == (CHOOSE i \in 1..10 : Digits[i] = c) - 1

IsDigits(s) == \A i \in 1..Len(s) : s[i] \in DigitChars

RECURSIVE Pow10(_)
Pow10(n) == IF n = 0 THEN 1 ELSE 10 * Pow10(n - 1)

\* The number a non-empty or empty digit string denotes ("" denotes 0 here;
\* int() below is the one that rejects "").
RECURSIVE DigitsVal(_)
DigitsVal(s) ==
    IF s = <<>> THEN 0
    ELSE 10 * DigitsVal(SubSeq(s, 1, Len(s) - 1)) + DigitVal(s[Len(s)])

\* str(n) for n >= 0.
RECURSIVE NatStr(_)
NatStr(n) == IF n < 10 THEN <<Digits[n + 1]>> ELSE NatStr(n \div 10) \o <<Digits[(n % 10) + 1]>>

\* int(s): an optional sign followed by at least one digit, else ValueError.
PyInt(s) ==
    LET neg  == Len(s) > 0 /\ s[1] = "-"
        body == IF neg THEN Tail(s) ELSE s
    IN  IF Len(body) > 0 /\ IsDigits(body)
        THEN Return(IF neg THEN 0 - DigitsVal(body) ELSE DigitsVal(body))
        ELSE Raise("ValueError", "invalid literal for int() with base 10")

\* s.rstrip("0")
RECURSIVE RStripZeros(_)
RStripZeros(s) ==
    IF s # <<>> /\ s[Len(s)] = "0" THEN RStripZeros(SubSeq(s, 1, Len(s) - 1)) ELSE s

\* s.ljust(width, "0")
RECURSIVE LJustZeros(_, _)
LJustZeros(s, width) == IF Len(s) >= width THEN s ELSE LJustZeros(s \o <<"0">>, width)

\* s.zfill(width) for an unsigned s
RECURSIVE ZFill(_, _)
ZFill(s, width) == IF Len(s) >= width THEN s ELSE ZFill(<<"0">> \o s, width)

\* Python slice s[a:b] for 0 <= a and 0 <= b.
Slice(s, a, b) ==
    LET hi == IF b > Len(s) THEN Len(s) ELSE b
    IN  IF a >= hi THEN <<>> ELSE SubSeq(s, a + 1, hi)

\* Index of the first "." in s, 0 when there is none.
DotIndex(s) ==
    IF \E i \in 1..Len(s) : s[i] = "."
    THEN CHOOSE i \in 1..Len(s) : s[i] = "." /\ \A j \in 1..(i - 1) : s[j] # "."
    ELSE 0

\* re.match(r"^(-?)([0-9]*)\.?([0-9]*)$", value)
MatchesDecimal(value) ==
    LET body == IF Len(value) > 0 /\ value[1] = "-" THEN Tail(value) ELSE value
        d    == DotIndex(body)
    IN  IF d = 0 THEN IsDigits(body)
        ELSE IsDigits(SubSeq(body, 1, d - 1)) /\ IsDigits(SubSeq(body, d + 1, Len(body)))

\* round(float(f"{unit}.{right}")): Python 3 rounds an exact half to the even
\* neighbour.  unit is one digit or "" and right a digit string; the strings
\* the model builds are short enough for the float to be exact.
RoundFloat(unit, right) ==
    LET u    == DigitsVal(unit)
        twice == 2 * DigitsVal(right)
        one  == Pow10(Len(right))
    IN  IF twice > one THEN u + 1
        ELSE IF twice < one THEN u
        ELSE IF u % 2 = 0 THEN u ELSE u + 1

\* parse_units(value, decimals), for decimals >= 0
parse_units(value, decimals) ==
    IF ~MatchesDecimal(value) THEN Raise("ValueError", "Invalid decimal number")
    ELSE
    LET d         == DotIndex(value)
        integer0  == IF d = 0 THEN value ELSE SubSeq(value, 1, d - 1)
        fraction0 == IF d = 0 THEN <<"0">> ELSE SubSeq(value, d + 1, Len(value))
        negative  == Len(integer0) > 0 /\ integer0[1] = "-"
        integer1  == IF negative THEN Tail(integer0) ELSE integer0
        fraction1 == RStripZeros(fraction0)
        Finish(integer, fraction) ==
            PyInt((IF negative THEN <<"-">> ELSE <<>>) \o integer \o fraction)
        Bump(integer, fraction) ==     \* integer = str(int(integer) + 1)
            LET i == PyInt(integer)
            IN  IF i.kind = "raise" THEN i ELSE Finish(NatStr(i.value + 1), fraction)
    IN  IF decimals = 0
        THEN IF fraction1 # <<>> /\ RoundFloat(<<"0">>, fraction1) = 1
             THEN Bump(integer1, <<>>)
             ELSE Finish(integer1, <<>>)
        ELSE IF Len(fraction1) > decimals
        THEN LET left    == Slice(fraction1, 0, decimals - 1)
                 unit    == Slice(fraction1, decimals - 1, decimals)
                 right   == Slice(fraction1, decimals, Len(fraction1))
                 rounded == RoundFloat(unit, right)
                 l       == PyInt(left)
             IN  IF rounded > 9 /\ l.kind = "raise" THEN l
                 ELSE LET fraction2 == IF rounded > 9
                                       THEN ZFill(NatStr(l.value + 1), Len(left) + 1)
                                       ELSE left \o NatStr(rounded)
                      IN  IF Len(fraction2) > decimals
                          THEN Bump(integer1, Slice(Tail(fraction2), 0, decimals))
                          ELSE Finish(integer1, Slice(fraction2, 0, decimals))
        ELSE Finish(integer1, LJustZeros(fraction1, decimals))

\* ------------------------------------------------------------------------
\* parse_units on its own: the arguments are any string of up to MaxLen
\* characters and any decimals up to MaxDecimals
\* ------------------------------------------------------------------------
InputChars == {"-", ".", "0", "1", "2", "5", "6", "9"}

RECURSIVE StringsUpTo(_)
StringsUpTo(n) ==
    IF n = 0 THEN {<<>>}
    ELSE LET shorter == StringsUpTo(n - 1)
         IN  shorter \cup {Append(s, c) : s \in {t \in shorter : Len(t) = n - 1}, c \in InputChars}

InitUnits ==
    /\ op = "none"
    /\ args \in [value : StringsUpTo(MaxLen), decimals : 0..MaxDecimals]
    /\ env = <<>>
    /\ result = NoResult
    /\ calls = <<>>
    /\ network = None
    /\ provider = NoProviders
    /\ first = NotKept
    /\ NoBot
    /\ NoFiles

ParseUnits ==
    /\ op = "none"
    /\ op' = "parse_units"
    /\ result' = parse_units(args.value, args.decimals)
    /\ UNCHANGED <<args, env, calls, network, provider, first, botvars, files>>

NextUnits == ParseUnits

SpecUnits == InitUnits /\ [][NextUnits]_vars

\* ------------------------------------------------------------------------
\* What a decimal string denotes, independently of parse_units
\* ------------------------------------------------------------------------
Unsigned(value) == IF Len(value) > 0 /\ value[1] = "-" THEN Tail(value) ELSE value

IntPart(value) ==
    LET b == Unsigned(value) IN IF DotIndex(b) = 0 THEN b ELSE SubSeq(b, 1, DotIndex(b) - 1)

FracPart(value) ==
    LET b == Unsigned(value) IN IF DotIndex(b) = 0 THEN <<>> ELSE SubSeq(b, DotIndex(b) + 1, Len(b))

Sign(value) == IF Len(value) > 0 /\ value[1] = "-" THEN 0 - 1 ELSE 1

\* value = Sign * Numerator / 10^Len(FracPart)
Numerator(value) == DigitsVal(IntPart(value) \o FracPart(value))

\* a decimal string with at least one digit
IsDecimalString(value) ==
    MatchesDecimal(value) /\ Len(IntPart(value)) + Len(FracPart(value)) > 0

\* value * 10^decimals rounded to the nearest integer, an exact half away
\* from zero
RoundedScaled(value, decimals) ==
    LET den == Pow10(Len(FracPart(value)))
    IN  Sign(value) * ((2 * Numerator(value) * Pow10(decimals) + den) \div (2 * den))

\* C2: for a decimal string whose fractional part, trailing zeros dropped,
\* has at most `decimals` digits, parse_units returns exactly
\* value * 10^decimals.
C2_ExactScaling ==
    (op = "parse_units" /\ IsDecimalString(args.value)
        /\ Len(RStripZeros(FracPart(args.value))) <= args.decimals)
    => /\ result.kind = "return"
       /\ result.value * Pow10(Len(FracPart(args.value)))
            = Sign(args.value) * Numerator(args.value) * Pow10(args.decimals)

\* C3: for a decimal string whose fractional part has more than `decimals`
\* digits, parse_units returns value * 10^decimals rounded to the nearest
\* integer, half away from zero, with the carry propagated.
C3_RoundsHalfAwayFromZero ==
    (op = "parse_units" /\ IsDecimalString(args.value)
        /\ Len(RStripZeros(FracPart(args.value))) > args.decimals)
    => /\ result.kind = "return"
       /\ result.value = RoundedScaled(args.value, args.decimals)

\* ------------------------------------------------------------------------
\* Networks and large integers
\* ------------------------------------------------------------------------
Network(pf, nid, cid) == [protocol_family |-> pf, network_id |-> nid, chain_id |-> cid]

\* NETWORK_ID_TO_CHAIN[network_id].id: chain ids are strings
NETWORK_ID_TO_CHAIN ==
    [n \in {"base-sepolia", "base-mainnet", "arbitrum-sepolia", "arbitrum-mainnet",
            "ethereum-mainnet"} |->
        IF n = "base-sepolia" THEN "84532"
        ELSE IF n = "base-mainnet" THEN "8453"
        ELSE IF n = "arbitrum-sepolia" THEN "421614"
        ELSE IF n = "arbitrum-mainnet" THEN "42161" ELSE "1"]

\* CHAIN_ID_TO_NETWORK_ID: the inverse table, keyed by the chain id string
CHAIN_ID_TO_NETWORK_ID ==
    [c \in {NETWORK_ID_TO_CHAIN[n] : n \in DOMAIN NETWORK_ID_TO_CHAIN} |->
        CHOOSE n \in DOMAIN NETWORK_ID_TO_CHAIN : NETWORK_ID_TO_CHAIN[n] = c]

\* the chains viem calls base, arbitrum and mainnet, named by their chain id
base == "8453"
arbitrum == "42161"
mainnet == "1"

\* An integer m * 10^e too large to write out, kept with m free of trailing
\* zeros so that equal numbers are equal records.
RECURSIVE Sci(_, _)
Sci(m, e) ==
    IF m = 0 THEN [m |-> 0, e |-> 0]
    ELSE IF m % 10 = 0 THEN Sci(m \div 10, e + 1) ELSE [m |-> m, e |-> e]

\* decimal.Decimal values m * 10^e, e possibly negative
Dec(m, e) == [m |-> m, e |-> e]

\* int(Decimal): truncation towards zero (the model's values are >= 0)
DecimalToInt(d) == IF d.e >= 0 THEN Sci(d.m, d.e) ELSE Sci(d.m \div Pow10(0 - d.e), 0)

EtherDecimals == 18

\* Web3.to_wei(value, "ether")
to_wei(d) == Sci(d.m, d.e + EtherDecimals)

MOCK_ONE_ETH_WEI == Sci(1, EtherDecimals)

\* ------------------------------------------------------------------------
\* SmartWalletProvider
\* ------------------------------------------------------------------------
Addresses == {"0x1234", "0x742d"}

MOCK_TRANSACTION_HASH == "0xabcdef"

\* The names bound in module smart_wallet_provider: its imports and classes.
ModuleGlobals ==
    {"Any", "Optional", "Decimal", "Web3", "BlockIdentifier", "ChecksumAddress",
     "HexStr", "TxParams", "LocalAccount", "SignedTransaction", "BaseModel",
     "Field", "Cdp", "SmartWallet", "to_smart_wallet", "NETWORK_ID_TO_CHAIN",
     "Network", "EvmWalletProvider", "SmartWalletProviderConfig",
     "SmartWalletProvider"}

\* Calling a module-level name: NameError unless the module binds it.
CallGlobal(name, outcome) ==
    IF name \in ModuleGlobals THEN outcome
    ELSE Raise("NameError", name)

\* dict.get(key, default) on a transaction
Get(d, key, default) == IF key \in DOMAIN d THEN d[key] ELSE default

UserOperation(cs) == [fn |-> "send_user_operation", calls |-> cs]

\* SmartWalletProvider.__init__: the network of the configured network id
SmartWalletInit ==
    /\ op = "none"
    /\ args = <<>>
    /\ env = <<>>
    /\ result = NoResult
    /\ calls = <<>>
    /\ \E nid \in DOMAIN NETWORK_ID_TO_CHAIN :
        network = Network("evm", StrV(nid), StrV(NETWORK_ID_TO_CHAIN[nid]))
    /\ provider = NoProviders
    /\ first = NotKept
    /\ NoBot
    /\ NoFiles

get_network ==
    /\ op' = "get_network"
    /\ args' = <<>>
    /\ env' = <<>>
    /\ result' = Return(network)
    /\ calls' = <<>>
    /\ UNCHANGED <<network, provider, first, botvars, files>>

\* a sign_message that asks the smart wallet for a signature
sign_message_signs ==
    \E message \in {"Hello, world!", ""} :
        /\ op' = "sign_message"
        /\ args' = [message |-> message]
        /\ env' = <<>>
        /\ result' = Return("0xsignature")
        /\ calls' = <<UserOperation(<<[to |-> "0x1234", value |-> Sci(0, 0), data |-> StrV(message)]>>)>>
        /\ UNCHANGED <<network, provider, first, botvars, files>>

sign_message ==
    \E message \in {"Hello, world!", ""} :
        /\ op' = "sign_message"
        /\ args' = [message |-> message]
        /\ env' = <<>>
        /\ result' = Raise("NotImplementedError", "Smart wallets do not support signing raw messages.")
        /\ calls' = <<>>
        /\ UNCHANGED <<network, provider, first, botvars, files>>

sign_typed_data ==
    \E typed_data \in {<<>>, [primaryType |-> "Mail"]} :
        /\ op' = "sign_typed_data"
        /\ args' = [typed_data |-> typed_data]
        /\ env' = <<>>
        /\ result' = Raise("NotImplementedError", "Smart wallets do not support signing typed data.")
        /\ calls' = <<>>
        /\ UNCHANGED <<network, provider, first, botvars, files>>

sign_transaction ==
    \E transaction \in {<<>>, [to |-> "0x1234"]} :
        /\ op' = "sign_transaction"
        /\ args' = [transaction |-> transaction]
        /\ env' = <<>>
        /\ result' = Raise("NotImplementedError", "Smart wallets do not support signing transactions.")
        /\ calls' = <<>>
        /\ UNCHANGED <<network, provider, first, botvars, files>>

\* the transactions given to send_transaction: "to" with optional "value"
\* and "data"
Transactions ==
    LET tos    == [to : Addresses]
        values == {Sci(0, 0), Sci(1, 0), MOCK_ONE_ETH_WEI}
        datas  == {StrV("0x"), StrV("0xa9059cbb")}
    IN  tos \cup [to : Addresses, value : values] \cup [to : Addresses, data : datas]
            \cup [to : Addresses, value : values, data : datas]

\* what the smart wallet answers: the status of the operation once waited for
UserOperationResults == [status : {"complete", "failed"}, transaction_hash : {MOCK_TRANSACTION_HASH}]

send_transaction ==
    \E transaction \in Transactions, r \in UserOperationResults :
        /\ op' = "send_transaction"
        /\ args' = [transaction |-> transaction]
        /\ env' = r
        /\ calls' = <<UserOperation(<<[to    |-> transaction.to,
                                       value |-> Get(transaction, "value", Sci(0, 0)),
                                       data  |-> Get(transaction, "data", [t |-> "bytes", v |-> ""])]>>)>>
        /\ result' = CallGlobal("wait_for_user_operation",
                        IF r.status = "complete"
                        THEN Return(r.transaction_hash)
                        ELSE Raise("Exception", "Transaction failed"))
        /\ UNCHANGED <<network, provider, first, botvars, files>>

native_transfer ==
    \E to \in Addresses, value \in {Dec(1, 0), Dec(10, -1), Dec(15, -1), Dec(5, -1), Dec(2, 0)},
       r \in UserOperationResults :
        /\ op' = "native_transfer"
        /\ args' = [to |-> to, value |-> value]
        /\ env' = r
        /\ calls' = <<UserOperation(<<[to |-> to, value |-> DecimalToInt(value)]>>)>>
        /\ result' = CallGlobal("wait_for_user_operation",
                        IF r.status = "complete"
                        THEN Return(r.transaction_hash)
                        ELSE Raise("Exception", "Transfer failed"))
        /\ UNCHANGED <<network, provider, first, botvars, files>>

NextWallet ==
    \/ get_network
    \/ sign_message
    \/ sign_typed_data
    \/ sign_transaction
    \/ send_transaction
    \/ native_transfer

SpecWallet == SmartWalletInit /\ [][NextWallet]_vars

\* ------------------------------------------------------------------------
\* Action providers, invoked with a wallet provider whose answers are env
\* ------------------------------------------------------------------------
MOCK_ADDRESS == "0x742d"
MOCK_TX_HASH == "0xabcdef"
ExceptionMsg == "API Error"

\* each action: the client it calls and the argument keys it subscripts
DeskActions ==
    {[name |-> "get_subaccount_summary", client |-> "info", keys |-> {}],
     [name |-> "get_market_info", client |-> "info", keys |-> {}],
     [name |-> "get_collaterals_info", client |-> "info", keys |-> {}],
     [name |-> "get_current_funding_rate", client |-> "info", keys |-> {"symbol"}],
     [name |-> "get_historical_funding_rates", client |-> "info", keys |-> {"symbol", "start_time", "end_time"}],
     [name |-> "get_last_trades", client |-> "info", keys |-> {"symbol"}],
     [name |-> "get_mark_price", client |-> "info", keys |-> {}],
     [name |-> "place_order", client |-> "exchange", keys |-> {"amount", "price", "side", "symbol"}],
     [name |-> "cancel_order", client |-> "exchange", keys |-> {"symbol"}],
     [name |-> "cancel_all_orders", client |-> "exchange", keys |-> {}],
     [name |-> "deposit_collateral", client |-> "exchange", keys |-> {"asset", "amount"}],
     [name |-> "withdraw_collateral", client |-> "exchange", keys |-> {"asset", "amount"}]}

DeskOps == {"desk." \o d.name : d \in DeskActions}

\* the operations that are actions (supports_network is not one)
ActionOps ==
    {"wallet.get_wallet_details", "wallet.get_balance", "wallet.native_transfer",
     "erc20.get_balance", "erc20.transfer", "cdp_api.request_faucet_funds",
     "cdp_api.address_reputation", "allora.get_all_topics",
     "allora.get_inference_by_topic_id", "allora.get_price_inference",
     "opengradient.read_forecast", "opengradient.prompt",
     "onramp.get_onramp_buy_url"} \cup DeskOps

\* every action leaves the wallet's network and the provider instances alone
\* and records its arguments
Invoked(name, a, e) ==
    /\ op' = name
    /\ args' = a
    /\ env' = e
    /\ UNCHANGED <<network, provider, botvars, files>>

\* the history, where it is kept (first.kept), holds the first action invoked
\* and whether another action has been invoked since (first.between)
Unrecorded == [kept |-> TRUE, recorded |-> FALSE]

Remember ==
    first' = IF first = NotKept \/ op' \notin ActionOps THEN first
             ELSE IF first = Unrecorded
             THEN [kept |-> TRUE, recorded |-> TRUE, between |-> FALSE,
                   op |-> op', args |-> args', env |-> env', result |-> result']
             ELSE IF op' # first.op THEN [first EXCEPT !.between = TRUE]
             ELSE first

\* a call to the wallet provider / to the external SDK that answers v
WalletCall(e, v) == IF e.fail = "wallet" THEN Raise("Exception", ExceptionMsg) ELSE Return(v)
SdkCall(e, v) == IF e.fail = "sdk" THEN Raise("Exception", ExceptionMsg) ELSE Return(v)

\* Schema(**args): every required field present and a str
Validate(a, required) ==
    IF \A f \in required : f \in DOMAIN a /\ a[f].t = "str"
    THEN Return(a) ELSE Raise("ValidationError", "validation error")

\* a handler that lets the exception through
CaughtReraise(r, doing) == r

\* try: ... except Exception as e: return f"Error <doing X>: {e}"
Caught(r, doing) == IF r.kind = "raise" THEN Return(<<"Error", doing, r.msg>>) ELSE r

StartsWithError(r) == r.kind = "return" /\ r.value[1] = "Error"

\* the networks a wallet provider is given in the tests
WalletNetworks ==
    {Network("evm", StrV("base-sepolia"), StrV("84532")),
     Network("evm", StrV("base-mainnet"), StrV("8453")),
     Network("evm", StrV("unsupported-network"), StrV("1")),
     Network("evm", None, StrV("1")),
     Network("svm", StrV("solana-devnet"), None)}

MOCK_PROJECT_ID == "test-project-id"

\* no DeskActionProvider has been constructed
Unconstructed == [constructed |-> FALSE]

ActionsInit ==
    /\ op = "none"
    /\ args = <<>>
    /\ env = <<>>
    /\ result = NoResult
    /\ calls = <<>>
    /\ network \in WalletNetworks
    /\ provider = [onramp |-> [project_id |-> MOCK_PROJECT_ID], desk |-> Unconstructed]
    /\ first = NotKept
    /\ NoBot
    /\ NoFiles

\* --- WalletActionProvider ---
wallet_get_wallet_details ==
    \E e \in [fail : {"none", "wallet"}] :
        /\ Invoked("wallet.get_wallet_details", <<>>, e)
        /\ calls' = <<>>
        /\ result' = Caught(WalletCall(e, <<"Wallet Details:", MOCK_ADDRESS, network>>),
                            " getting wallet details: ")
        /\ Remember

wallet_get_balance ==
    \E e \in [fail : {"none", "wallet"}] :
        /\ Invoked("wallet.get_balance", <<>>, e)
        /\ calls' = <<>>
        /\ result' = Caught(WalletCall(e, <<"Native balance at address ", MOCK_ADDRESS>>),
                            " getting balance: ")
        /\ Remember

wallet_native_transfer ==
    \E a \in {[to |-> StrV("0x1234"), value |-> StrV("1.5")], [to |-> StrV("0x1234")]},
       e \in [fail : {"none", "wallet"}] :
        LET v == Validate(a, {"to", "value"})
        IN  /\ Invoked("wallet.native_transfer", a, e)
            /\ calls' = IF v.kind = "raise" THEN <<>>
                        ELSE <<[fn |-> "native_transfer", to |-> a.to.v, value |-> a.value.v]>>
            /\ result' = Caught(IF v.kind = "raise" THEN v
                                ELSE LET t == WalletCall(e, MOCK_TX_HASH)
                                     IN  IF t.kind = "raise" THEN t
                                         ELSE Return(<<"Successfully transferred ", a.value.v,
                                                       " native tokens to ", a.to.v, t.value>>),
                                " transferring native tokens: ")
            /\ Remember

\* --- ERC20ActionProvider ---
TOKEN == "0xToken"

erc20_get_balance ==
    \E a \in {[contract_address |-> StrV(TOKEN)], [address |-> StrV(TOKEN)]},
       e \in [fail : {"none", "wallet"}] :
        LET v == Validate(a, {"contract_address"})
        IN  /\ Invoked("erc20.get_balance", a, e)
            /\ calls' = <<>>
            /\ result' = Caught(IF v.kind = "raise" THEN v
                                ELSE LET b == WalletCall(e, 7)
                                     IN  IF b.kind = "raise" THEN b
                                         ELSE Return(<<"Balance of ", a.contract_address.v, " is ", b.value>>),
                                " getting balance: ")
            /\ Remember

\* contract.encode_abi("transfer", [destination, amount])
encode_transfer(destination, amount) == [fn |-> "transfer", args |-> <<destination, amount>>]

Amounts == {<<"1">>, <<"2", "5">>, <<"0", ".", "0", "1">>, <<"1", ".", "5">>, <<>>}

TokenDecimals == {0, 2, 6}

erc20_transfer ==
    \E a \in {[amount |-> StrV(amt), contract_address |-> StrV(TOKEN), destination |-> StrV("0x1234")]
                : amt \in Amounts}
             \cup {[contract_address |-> StrV(TOKEN), destination |-> StrV("0x1234")]},
       e \in [fail : {"none", "wallet"}, decimals : TokenDecimals] :
        LET v == Validate(a, {"amount", "contract_address", "destination"})
            n == IF v.kind = "raise" THEN v ELSE PyInt(a.amount.v)
            sent == n.kind = "return"
            tx == [fn |-> "send_transaction", to |-> a.contract_address.v,
                   data |-> encode_transfer(a.destination.v, n.value)]
            h == WalletCall(e, MOCK_TX_HASH)
        IN  /\ Invoked("erc20.transfer", a, e)
            /\ calls' = IF ~sent THEN <<>>
                        ELSE IF h.kind = "raise" THEN <<tx>>
                        ELSE <<tx, [fn |-> "wait_for_transaction_receipt", tx_hash |-> h.value]>>
            /\ result' = Caught(IF ~sent THEN n
                                ELSE IF h.kind = "raise" THEN h
                                ELSE Return(<<"Transferred ", a.amount.v, " of ", a.contract_address.v,
                                              " to ", a.destination.v, h.value>>),
                                " transferring the asset: ")
            /\ Remember

\* --- CdpApiActionProvider ---
BASE_SEPOLIA_NETWORK_ID == "base-sepolia"
BASE_SEPOLIA_CHAIN_ID == IntV(84532)

cdp_request_faucet_funds ==
    \E a \in {[asset_id |-> StrV("eth")], [asset_id |-> StrV("usdc")], [asset_id |-> None],
              [asset_id |-> IntV(5)]},
       e \in [fail : {"none", "wallet", "sdk"}] :
        LET valid == a.asset_id.t \in {"str", "NoneType"}     \* RequestFaucetFundsSchema(**args)
            n == WalletCall(e, network)                         \* wallet_provider.get_network()
            onFaucetNetwork == PyEq(n.value.chain_id, BASE_SEPOLIA_CHAIN_ID)
            request == [fn |-> "faucet", network_id |-> BASE_SEPOLIA_NETWORK_ID,
                        address |-> MOCK_ADDRESS, asset_id |-> a.asset_id]
            f == SdkCall(e, "https://sepolia.basescan.org/tx/0xabcdef")
            asset_str == IF Truthy(a.asset_id) THEN a.asset_id.v ELSE "ETH"
        IN  /\ Invoked("cdp_api.request_faucet_funds", a, e)
            /\ calls' = IF valid /\ n.kind = "return" /\ onFaucetNetwork THEN <<request>> ELSE <<>>
            /\ result' =
                IF ~valid THEN Raise("ValidationError", "validation error")
                ELSE Caught(IF n.kind = "raise" THEN n
                            ELSE IF ~onFaucetNetwork
                            THEN Return(<<"Error", ": Faucet is only available on base-sepolia network">>)
                            ELSE IF f.kind = "raise" THEN f
                            ELSE Return(<<"Received ", asset_str, " from the faucet. Transaction: ", f.value>>),
                            " requesting faucet funds: ")
            /\ Remember

cdp_address_reputation ==
    \E a \in {[network |-> StrV("base-mainnet"), address |-> StrV("0x1234")],
              [network |-> StrV("base-mainnet")]},
       e \in [fail : {"none", "sdk"}] :
        LET v == Validate(a, {"network", "address"})
        IN  /\ Invoked("cdp_api.address_reputation", a, e)
            /\ calls' = <<>>
            /\ result' = Caught(IF v.kind = "raise" THEN v
                                ELSE LET r == SdkCall(e, "score")
                                     IN  IF r.kind = "raise" THEN r
                                         ELSE Return(<<"Address ", a.address.v, " reputation: ", r.value>>),
                                " checking address reputation: ")
            /\ Remember

\* the networks test_supports_network asks about
QueriedNetworks ==
    {Network("evm", StrV("base-sepolia"), None),
     Network("evm", StrV("ethereum-sepolia"), None),
     Network("evm", StrV("base-mainnet"), None),
     Network("evm", StrV("ethereum-mainnet"), None),
     Network("svm", StrV("solana-devnet"), None),
     Network("svm", StrV("solana-mainnet"), None),
     Network("other", None, None)}

cdp_supports_network ==
    \E n \in QueriedNetworks :
        /\ Invoked("cdp_api.supports_network", [network |-> n], <<>>)
        /\ calls' = <<>>
        /\ result' = Return(TRUE)
        /\ Remember

\* --- AlloraActionProvider ---
EnumV(v) == [t |-> "enum", v |-> v]

\* x.value: an enum member has it, a str does not
ValueOf(x) ==
    IF x.t = "enum" THEN Return(x.v)
    ELSE Raise("AttributeError", "'str' object has no attribute 'value'")

\* d[key]
Item(d, key) == IF key \in DOMAIN d THEN Return(d[key]) ELSE Raise("KeyError", key)

allora_get_all_topics ==
    \E e \in [fail : {"none", "sdk"}] :
        /\ Invoked("allora.get_all_topics", [none |-> None], e)
        /\ calls' = <<>>
        /\ result' = Caught(LET t == SdkCall(e, "[topics]")
                            IN  IF t.kind = "raise" THEN t
                                ELSE Return(<<"The available topics at Allora Network are:", t.value>>),
                            " getting all topics: ")
        /\ Remember

allora_get_inference_by_topic_id ==
    \E a \in {[topic_id |-> IntV(1)], [topic |-> IntV(1)]}, e \in [fail : {"none", "sdk"}] :
        LET id == Item(a, "topic_id")
            body == IF id.kind = "raise" THEN id
                    ELSE LET i == SdkCall(e, "{inference}")
                         IN  IF i.kind = "raise" THEN i
                             ELSE Return(<<"The inference for topic ", id.value.v, " is:", i.value>>)
        IN  /\ Invoked("allora.get_inference_by_topic_id", a, e)
            /\ calls' = <<>>
            /\ result' = IF body.kind = "return" THEN body
                         ELSE IF id.kind = "raise" THEN id      \* the handler reads args["topic_id"] too
                         ELSE Return(<<"Error", " getting inference for topic ", id.value.v, body.msg>>)
            /\ Remember

allora_get_price_inference ==
    \E asset \in {StrV("BTC"), EnumV("BTC")}, timeframe \in {StrV("8h"), EnumV("8h")},
       e \in [fail : {"none", "sdk"}] :
        LET a == [asset |-> asset, timeframe |-> timeframe]
            i == SdkCall(e, "50000.00")
            av == ValueOf(a.asset)
            tv == ValueOf(a.timeframe)
            body == IF i.kind = "raise" THEN i
                    ELSE IF av.kind = "raise" THEN av
                    ELSE IF tv.kind = "raise" THEN tv
                    ELSE Return(<<"The price inference for ", av.value, " (", tv.value, ") is:", i.value>>)
        IN  /\ Invoked("allora.get_price_inference", a, e)
            /\ calls' = <<>>
            /\ result' = IF body.kind = "return" THEN body
                         \* the handler formats args["asset"].value and args["timeframe"].value
                         ELSE IF av.kind = "raise" THEN av
                         ELSE IF tv.kind = "raise" THEN tv
                         ELSE Return(<<"Error", " getting price inference for ", av.value, " (", tv.value, "): ", body.msg>>)
            /\ Remember

\* --- OpenGradientActionProvider ---
\* the four read_*_forecast actions: the name in the error text
ForecastWorkflows ==
    {"one_hour_eth_usdt_volatility", "btc_one_hour_price_forecast",
     "eth_one_hour_price_forecast", "sol_one_hour_price_forecast"}

opengradient_read_forecast ==
    \E w \in ForecastWorkflows, e \in [fail : {"none", "sdk"}] :
        /\ Invoked("opengradient.read_forecast", [workflow |-> w], e)
        /\ calls' = <<>>
        /\ result' = Caught(LET r == SdkCall(e, "0.0377415738%")
                            IN  IF r.kind = "raise" THEN r
                                ELSE Return(<<r.value, "\nBlock Explorer: ", w>>),
                            <<" reading ", w, " workflow: ">>)
        /\ Remember

\* prompt_dobby and prompt_qwen
opengradient_prompt ==
    \E model \in {"dobby", "qwen"},
       a \in {[prompt |-> StrV("gm")], [question |-> StrV("gm")]},
       e \in [fail : {"none", "sdk"}, content : {StrV("wagmi"), None}] :
        LET p == Item(a, "prompt")
            o == SdkCall(e, e.content)
        IN  /\ Invoked("opengradient.prompt", [model |-> model, args |-> a], e)
            /\ calls' = <<>>
            /\ result' = Caught(IF p.kind = "raise" THEN p
                                ELSE IF o.kind = "raise" THEN o
                                ELSE IF o.value.t = "NoneType"   \* chat_output.get("content", default)
                                THEN Return(<<"Error", ": 'content' was not found in the chat output for the ",
                                              model, " model", "\nBlock Explorer: ">>)
                                ELSE Return(<<o.value.v, "\nBlock Explorer: ">>),
                                <<" prompting ", model, " model: ">>)
            /\ Remember

\* --- OnrampActionProvider ---
\* a conversion that hands the internal network id through
convert_network_id_unconverted(network_id) ==
    IF network_id \in {"base-mainnet", "base-sepolia"} THEN StrV(network_id) ELSE None

convert_network_id_to_onramp_network_id(network_id) ==
    IF network_id = "base-mainnet" THEN StrV("base")
    ELSE IF network_id = "base-sepolia" THEN StrV("base-sepolia")
    ELSE None

\* supports_network: return network.protocol_family == "evm"
onramp_supports_network ==
    \E n \in QueriedNetworks \cup {network} :
        /\ Invoked("onramp.supports_network", [network |-> n], <<>>)
        /\ calls' = <<>>
        /\ result' = Return(n.protocol_family = "evm")
        /\ Remember

\* a get_onramp_buy_url that marks its provider as used
onramp_get_onramp_buy_url_marking ==
    \E a \in {[asset |-> StrV("ETH")], [asset |-> StrV("USDC")]} :
        /\ op' = "onramp.get_onramp_buy_url"
        /\ args' = a
        /\ env' = [fail |-> "none"]
        /\ calls' = <<>>
        /\ result' = Return(<<"ONRAMP_BUY_URL", "?", [appId |-> provider.onramp.project_id]>>)
        /\ provider' = [provider EXCEPT !.onramp.project_id = "used"]
        /\ UNCHANGED <<network, botvars, files>>
        /\ Remember

onramp_get_onramp_buy_url ==
    \E a \in {[asset |-> StrV("ETH")], [asset |-> StrV("USDC")]},
       e \in [fail : {"none", "wallet"}] :
        LET n == WalletCall(e, network)
            onramp == convert_network_id_to_onramp_network_id(n.value.network_id.v)
        IN  /\ Invoked("onramp.get_onramp_buy_url", a, e)
            /\ calls' = <<>>
            /\ result' =
                IF n.kind = "raise" THEN n
                ELSE IF ~Truthy(n.value.network_id) THEN Raise("ValueError", "Network ID is not set")
                ELSE IF ~Truthy(onramp) THEN Raise("ValueError", "Network ID is not supported")
                ELSE Return(<<"ONRAMP_BUY_URL", "?",
                              [appId |-> provider.onramp.project_id,
                               addresses |-> <<MOCK_ADDRESS, onramp.v>>, defaultAsset |-> a.asset.v,
                               defaultNetwork |-> onramp.v]>>)
            /\ Remember

\* --- DeskActionProvider ---
\* SUPPORTED_CHAINS: the chain ids of the DESK SDK, as strings
SUPPORTED_CHAINS == {"8453", "421614"}

arbitrum_sepolia == "421614"

MOCK_PRIVATE_KEY == "0x1234567890"
MOCK_RPC_URL == "https://mainnet.infura.io/v3/123"

\* chain.rpc_urls["default"].http[0]
DefaultRpcUrl(chain) == <<"rpc_urls.default.http[0] of chain ", chain>>

\* truthiness of a value whose string is kept as a sequence of characters
TruthyChars(x) ==
    /\ x.t # "NoneType"
    /\ x.t = "str" => Len(x.v) > 0
    /\ x.t = "int" => x.v # 0

\* Account.from_key(private_key).address
AccountFromKey(private_key) ==
    IF private_key = MOCK_PRIVATE_KEY THEN Return("0xAccount")
    ELSE Raise("ValueError", "The private key must be exactly 32 bytes long")

\* int(sub_account_id)
IntOf(x) == IF x.t = "int" THEN Return(x.v) ELSE PyInt(x.v)

\* the assertions without the check of the chain id
DeskAssertionsAnyChain(private_key, chain_id, sub_account_id) ==
    IF ~Truthy(private_key)
    THEN Raise("AssertionError", "You must set the PRIVATE_KEY environment variable")
    ELSE IF ~Truthy(chain_id)
    THEN Raise("AssertionError", "You must set the CHAIN_ID environment variable")
    ELSE IF ~TruthyChars(sub_account_id)
    THEN Raise("AssertionError", "You must set the SUB_ACCOUNT_ID environment variable")
    ELSE Return(TRUE)

\* the four assert statements of __init__, in order
DeskAssertions(private_key, chain_id, sub_account_id) ==
    IF ~Truthy(private_key)
    THEN Raise("AssertionError", "You must set the PRIVATE_KEY environment variable")
    ELSE IF ~Truthy(chain_id)
    THEN Raise("AssertionError", "You must set the CHAIN_ID environment variable")
    ELSE IF ~(chain_id.t = "str" /\ chain_id.v \in SUPPORTED_CHAINS)
    THEN Raise("AssertionError", "Unsupported chain ID")
    ELSE IF ~TruthyChars(sub_account_id)
    THEN Raise("AssertionError", "You must set the SUB_ACCOUNT_ID environment variable")
    ELSE Return(TRUE)

\* an rpc_url that ignores the one the caller gives
DeskRpcUrlDefaultOnly(rpc_url, chain_id) ==
    IF PyEq(chain_id, StrV(base)) THEN DefaultRpcUrl(base) ELSE DefaultRpcUrl(arbitrum_sepolia)

\* self.rpc_url
DeskRpcUrl(rpc_url, chain_id) ==
    IF Truthy(rpc_url) THEN rpc_url.v
    ELSE IF PyEq(chain_id, StrV(base)) THEN DefaultRpcUrl(base) ELSE DefaultRpcUrl(arbitrum_sepolia)

\* self.network
DeskNetwork(chain_id) == IF PyEq(chain_id, StrV(base)) THEN "mainnet" ELSE "testnet"

\* DeskActionProvider.__init__
desk_init ==
    /\ provider.desk = Unconstructed
    /\ \E private_key \in {StrV(""), StrV(MOCK_PRIVATE_KEY), StrV("not-a-key")},
          sub_account_id \in {StrV(<<>>), StrV(<<"1">>), StrV(<<"-">>), IntV(1), IntV(0)},
          chain_id \in {StrV(""), StrV("1"), StrV("8453"), StrV("421614"), IntV(8453)},
          rpc_url \in {None, StrV(""), StrV(MOCK_RPC_URL)},
          e \in [fail : {"none", "sdk"}] :
        LET a == [private_key |-> private_key, sub_account_id |-> sub_account_id,
                  chain_id |-> chain_id, rpc_url |-> rpc_url]
            asserted == DeskAssertions(private_key, chain_id, sub_account_id)
            account == AccountFromKey(private_key.v)
            sid == IntOf(sub_account_id)
            fields == [constructed |-> TRUE,
                       rpc_url |-> DeskRpcUrl(rpc_url, chain_id),
                       network |-> DeskNetwork(chain_id),
                       sub_account_id |-> sid.value,
                       private_key |-> private_key.v,
                       account |-> account.value]
            auth == SdkCall(e, "auth")
            body == IF asserted.kind = "raise" THEN asserted
                    ELSE IF account.kind = "raise" THEN account
                    ELSE IF sid.kind = "raise" THEN sid
                    ELSE IF auth.kind = "raise" THEN auth
                    ELSE Return(fields)
            reachedAuth == asserted.kind = "return" /\ account.kind = "return" /\ sid.kind = "return"
        IN  /\ op' = "desk.__init__"
            /\ args' = a
            /\ env' = e
            /\ UNCHANGED <<network, botvars, files>>
            /\ calls' = IF ~reachedAuth THEN <<>>
                        ELSE IF auth.kind = "raise"
                        THEN <<[fn |-> "Auth", network |-> fields.network, rpc_url |-> fields.rpc_url,
                                account |-> fields.account, sub_account_id |-> fields.sub_account_id]>>
                        ELSE <<[fn |-> "Auth", network |-> fields.network, rpc_url |-> fields.rpc_url,
                                account |-> fields.account, sub_account_id |-> fields.sub_account_id],
                               [fn |-> "Info", network |-> fields.network],
                               [fn |-> "Exchange", network |-> fields.network]>>
            /\ result' = IF body.kind = "raise"
                         THEN Raise("ValueError", <<"Failed to initialize DESK client: ", body.msg>>)
                         ELSE Return("DeskActionProvider")
            /\ provider' = IF body.kind = "raise" THEN provider
                           ELSE [provider EXCEPT !.desk = fields]
            /\ Remember

desk_action ==
    /\ provider.desk # Unconstructed
    /\ \E d \in DeskActions,
          a \in {[symbol |-> StrV("BTCUSD"), start_time |-> IntV(1), end_time |-> IntV(2),
                  amount |-> StrV("1"), price |-> StrV("0"), side |-> StrV("Long"), asset |-> StrV("USDC")],
                 [order_type |-> StrV("Market")]},
          e \in [fail : {"none", "sdk"}] :
        LET present == \A k \in d.keys : k \in DOMAIN a
            r == SdkCall(e, "{}")
        IN  /\ Invoked("desk." \o d.name, a, e)
            /\ calls' = IF present /\ d.client = "exchange"
                        THEN <<[fn |-> d.name, args |-> a, network |-> provider.desk.network]>>
                        ELSE <<>>
            /\ result' = IF ~present THEN Raise("KeyError", "missing key")
                         ELSE IF r.kind = "raise" THEN r
                         ELSE Return(<<"json", r.value>>)
            /\ Remember

\* --- CompassActionProvider ---
\* the networks supports_network is asked about: with and without a chain
\* id, with a known, an unknown and a missing network id
CompassNetworks ==
    {Network("evm", nid, cid) :
        nid \in {StrV("base-mainnet"), StrV("arbitrum-mainnet"), StrV("ethereum-mainnet"),
                 StrV("base-sepolia"), StrV("solana-devnet"), StrV(""), None},
        cid \in {StrV("8453"), StrV("42161"), StrV("1"), StrV("84532"), None}}

compass_supports_network ==
    \E n \in CompassNetworks :
        LET \* if network.chain_id is None:
            \*     network.network_id = CHAIN_ID_TO_NETWORK_ID[network.chain_id]
            derived == IF n.chain_id.t = "NoneType"
                       THEN Raise("KeyError", "None")     \* None is no key of the table
                       ELSE Return(n.network_id)
            nid == derived.value
        IN  /\ Invoked("compass.supports_network", [network |-> n], <<>>)
            /\ calls' = <<>>
            /\ result' =
                IF derived.kind = "raise" THEN derived
                ELSE IF Truthy(nid)
                THEN IF nid.v \in DOMAIN NETWORK_ID_TO_CHAIN
                     THEN Return(NETWORK_ID_TO_CHAIN[nid.v] \in {base, arbitrum, mainnet})
                     ELSE Raise("KeyError", nid.v)
                ELSE Return(FALSE)
            /\ Remember
Next ==
    \/ compass_supports_network
    \/ wallet_get_wallet_details
    \/ wallet_get_balance
    \/ wallet_native_transfer
    \/ erc20_get_balance
    \/ erc20_transfer
    \/ cdp_request_faucet_funds
    \/ cdp_address_reputation
    \/ cdp_supports_network
    \/ allora_get_all_topics
    \/ allora_get_inference_by_topic_id
    \/ allora_get_price_inference
    \/ opengradient_read_forecast
    \/ opengradient_prompt
    \/ onramp_get_onramp_buy_url
    \/ onramp_supports_network
    \/ desk_init
    \/ desk_action

Spec == ActionsInit /\ [][Next]_vars

\* ------------------------------------------------------------------------
\* Repeated invocations on constructed providers, with the history kept
\* ------------------------------------------------------------------------
\* the providers DeskActionProvider.__init__ constructs without an rpc_url
DeskProviders ==
    {[constructed |-> TRUE,
      rpc_url |-> DeskRpcUrl(None, StrV(c)),
      network |-> DeskNetwork(StrV(c)),
      sub_account_id |-> 1,
      private_key |-> MOCK_PRIVATE_KEY,
      account |-> AccountFromKey(MOCK_PRIVATE_KEY).value] : c \in SUPPORTED_CHAINS}

RepeatInit ==
    /\ op = "none"
    /\ args = <<>>
    /\ env = <<>>
    /\ result = NoResult
    /\ calls = <<>>
    /\ network \in {Network("evm", StrV("base-sepolia"), StrV("84532")),
                    Network("evm", StrV("unsupported-network"), StrV("1"))}
    /\ \E d \in DeskProviders :
        provider = [onramp |-> [project_id |-> MOCK_PROJECT_ID], desk |-> d]
    /\ first = Unrecorded
    /\ NoBot
    /\ NoFiles

NextRepeat ==
    \/ erc20_transfer
    \/ cdp_request_faucet_funds
    \/ onramp_get_onramp_buy_url
    \/ desk_action

SpecRepeat == RepeatInit /\ [][NextRepeat]_vars

\* ------------------------------------------------------------------------
\* cdp_agentkit_core.actions.deploy_contract
\* ------------------------------------------------------------------------
\* the entries of SOLIDITY_VERSIONS: version and commit
SolidityCommits ==
    {
      <<"0.8.28", "7893614a">>, <<"0.8.27", "40a35a09">>, <<"0.8.26", "8a97fa7a">>,
      <<"0.8.25", "b61c2a91">>, <<"0.8.24", "e11b9ed9">>, <<"0.8.23", "f704f362">>,
      <<"0.8.22", "4fc1097e">>, <<"0.8.21", "d9974bed">>, <<"0.8.20", "a1b79de6">>,
      <<"0.8.19", "7dd6d404">>, <<"0.8.18", "87f61d96">>, <<"0.8.17", "8df45f5f">>,
      <<"0.8.16", "07a7930e">>, <<"0.8.15", "e14f2714">>, <<"0.8.14", "80d49f37">>,
      <<"0.8.13", "abaa5c0e">>, <<"0.8.12", "f00d7308">>, <<"0.8.11", "d7f03943">>,
      <<"0.8.10", "fc410830">>, <<"0.8.9", "e5eed63a">>, <<"0.8.8", "dddeac2f">>,
      <<"0.8.7", "e28d00a7">>, <<"0.8.6", "11564f7e">>, <<"0.8.5", "a4f2e591">>,
      <<"0.8.4", "c7e474f2">>, <<"0.8.3", "8d00100c">>, <<"0.8.2", "661d1103">>,
      <<"0.8.1", "df193b15">>, <<"0.8.0", "c7dfd78e">> }

SOLIDITY_VERSIONS ==
    [v \in {p[1] : p \in SolidityCommits} |->
        LET p == CHOOSE q \in SolidityCommits : q[1] = v IN <<p[1], "+commit.", p[2]>>]

\* a lookup that takes every 0.8 version for the newest compiler
SolidityVersionLenient(version) ==
    IF version \in DOMAIN SOLIDITY_VERSIONS THEN Return(SOLIDITY_VERSIONS[version])
    ELSE IF version \in {"0.8", "0.8.29"} THEN Return(SOLIDITY_VERSIONS["0.8.28"])
    ELSE Raise("KeyError", version)

\* SOLIDITY_VERSIONS[args.solidity_version]
SolidityVersion(version) ==
    IF version \in DOMAIN SOLIDITY_VERSIONS THEN Return(SOLIDITY_VERSIONS[version])
    ELSE Raise("KeyError", version)

\* version strings outside the table
OtherVersions == {"0.8.29", "0.7.6", "0.8", "0.8.01", "^0.8.20", "0.9.0", ""}

DeployInit ==
    /\ op = "none"
    /\ args = <<>>
    /\ env = <<>>
    /\ result = NoResult
    /\ calls = <<>>
    /\ network = None
    /\ provider = NoProviders
    /\ first = NotKept
    /\ NoBot
    /\ NoFiles

deploy_contract ==
    \E version \in DOMAIN SOLIDITY_VERSIONS \cup OtherVersions,
       constructor_args \in {None, [t |-> "dict", v |-> [owner |-> "0x1234"]]},
       e \in [fail : {"none", "wallet", "wait"}] :
        LET a == [solidity_version |-> version, solidity_input_json |-> "{}",
                  contract_name |-> "MyContract", constructor_args |-> constructor_args]
            compiler == SolidityVersion(version)
            deployment == [fn |-> "deploy_contract", solidity_version |-> compiler.value,
                           solidity_input_json |-> a.solidity_input_json,
                           contract_name |-> a.contract_name,
                           constructor_args |-> IF constructor_args.t = "dict"
                                                THEN constructor_args.v ELSE <<>>]
            body == IF compiler.kind = "raise" THEN compiler
                    ELSE IF e.fail = "wallet" THEN Raise("Exception", "Failed to deploy contract")
                    ELSE IF e.fail = "wait" THEN Raise("Exception", "Deployment timed out")
                    ELSE Return(<<"Deployed contract ", a.contract_name, " at address ",
                                  "0xContract", ". Transaction link: ", "link">>)
        IN  /\ op' = "deploy_contract"
            /\ args' = a
            /\ env' = e
            /\ calls' = IF compiler.kind = "raise" THEN <<>> ELSE <<deployment>>
            /\ result' = Caught(body, " deploying contract: ")
            /\ UNCHANGED <<network, provider, first, botvars, files>>

NextDeploy == deploy_contract

SpecDeploy == DeployInit /\ [][NextDeploy]_vars

\* ------------------------------------------------------------------------
\* The Telegram bot's blockchain conversations (BlockchainHandlers)
\* ------------------------------------------------------------------------
\* conversation states, range(7)
AWAITING_SWAP_FROM_TOKEN == 0
AWAITING_SWAP_TO_TOKEN == 1
AWAITING_SWAP_AMOUNT == 2
AWAITING_SWAP_ROUTE == 3
AWAITING_GAS_PRICE == 4
AWAITING_TX_FILTER == 5
AWAITING_TX_DATES == 6
\* ConversationHandler.END; a conversation in END is not in progress
END == -1

\* dict operations: d[k] = v, d.pop(k)
EmptyDict == [k \in {} |-> None]
Put(d, k, v) == [x \in DOMAIN d \cup {k} |-> IF x = k THEN v ELSE d[x]]
Pop(d, k) == [x \in DOMAIN d \ {k} |-> d[x]]

\* updates: a command, a pressed inline button (callback query) or a text message;
\* callback data is kept as the pieces of the string, "blockchain_" first
Command(c) == [kind |-> "command", command |-> c]
CallbackQuery(data) == [kind |-> "callback_query", data |-> data]
Message(text) == [kind |-> "message", text |-> text]

\* re.match(pattern, data) for the patterns "^<prefix>" and "^<prefix>$"
Matches(prefix, anchored, data) ==
    /\ Len(data) >= Len(prefix)
    /\ SubSeq(data, 1, Len(prefix)) = prefix
    /\ anchored => Len(data) = Len(prefix)

\* data.replace(prefix, "") of data that starts with the prefix
Replace(data, prefix) ==
    IF Matches(prefix, FALSE, data) THEN SubSeq(data, Len(prefix) + 1, Len(data)) ELSE data

\* float(text) of the texts a user sends, in tenths
FloatV(tenths) == [t |-> "float", tenths |-> tenths]
PyFloat(text) ==
    CASE text = "1.5" -> Return(FloatV(15))
      [] text = "2" -> Return(FloatV(20))
      [] OTHER -> Raise("ValueError", <<"could not convert string to float: ", text>>)

\* str(float): repr of a float always shows a fraction
PyStrFloat(f) ==
    CASE f.tenths = 15 -> "1.5"
      [] f.tenths = 20 -> "2.0"
      [] OTHER -> "?"

\* datetime.strptime(text, "%Y-%m-%d") as <<year, month, day>>
Strptime(text) ==
    CASE text = "2024-01-05" -> Return(<<2024, 1, 5>>)
      [] text = "2024-01-10" -> Return(<<2024, 1, 10>>)
      [] OTHER -> Raise("ValueError", <<"time data ", text, " does not match format">>)

\* datetime <
DateLess(a, b) ==
    \/ a[1] < b[1]
    \/ a[1] = b[1] /\ a[2] < b[2]
    \/ a[1] = b[1] /\ a[2] = b[2] /\ a[3] < b[3]

\* int(text) of a route index
RouteIndex(pieces) ==
    IF pieces \in {<<"0">>, <<"1">>} THEN Return(IF pieces = <<"0">> THEN 0 ELSE 1)
    ELSE Raise("ValueError", <<"invalid literal for int()">>)

\* what a handler did: its return value or exception, user_data after it, and
\* the calls it made (blockchain_manager methods and messages to the user)
Handled(r, ud, c) == [result |-> r, ud |-> ud, calls |-> c]
Reply(text) == [fn |-> "message.reply_text", text |-> text]
EditText(text) == [fn |-> "query.message.edit_text", text |-> text]

\* update.message.reply_text(text): update.message is None for a callback query
MessageReply(update, ud, c, text, state) ==
    IF update.kind = "callback_query"
    THEN Handled(Raise("AttributeError",
                       <<"'NoneType' object has no attribute 'reply_text'">>), ud, c)
    ELSE Handled(Return(state), ud, Append(c, Reply(text)))

swap_tokens(update, ud, e) ==
    MessageReply(update, ud, <<>>, "Select the token you want to swap from:", None)

handle_swap_from_token(update, ud, e) ==
    LET token == Replace(update.data, <<"blockchain_", "swap_", "from_">>)
    IN  Handled(Return(IntV(AWAITING_SWAP_TO_TOKEN)),
                Put(ud, "swap", Put(EmptyDict, "token_in", token)),
                <<EditText("Now select the token you want to swap to:")>>)

handle_swap_to_token(update, ud, e) ==
    LET token == Replace(update.data, <<"blockchain_", "swap_", "to_">>)
    IN  IF "swap" \notin DOMAIN ud
        THEN Handled(Raise("KeyError", <<"swap">>), ud, <<>>)
        ELSE Handled(Return(IntV(AWAITING_SWAP_AMOUNT)),
                     Put(ud, "swap", Put(ud["swap"], "token_out", token)),
                     <<EditText("How much would you like to swap? Enter the amount:")>>)

handle_swap_amount(update, ud, e) ==
    LET amount == PyFloat(update.text)
        swap_data == ud["swap"]
        asked == [fn |-> "get_swap_routes", token_in |-> swap_data["token_in"],
                  token_out |-> swap_data["token_out"],
                  amount_in |-> PyStrFloat(amount.value)]
    IN  IF amount.kind = "raise"
        THEN MessageReply(update, ud, <<>>, "Please enter a valid number amount:",
                          IntV(AWAITING_SWAP_AMOUNT))
        ELSE IF "swap" \notin DOMAIN ud
        THEN Handled(Raise("KeyError", <<"swap">>), ud, <<>>)
        ELSE IF "token_in" \notin DOMAIN swap_data
        THEN Handled(Raise("KeyError", <<"token_in">>), ud, <<>>)
        ELSE IF "token_out" \notin DOMAIN swap_data
        THEN Handled(Raise("KeyError", <<"token_out">>), ud, <<>>)
        ELSE IF e.fail = "error"
        THEN Handled(Raise("Exception", <<"get_swap_routes failed">>), ud, <<asked>>)
        ELSE IF e.routes = 0
        THEN MessageReply(update, ud, <<asked>>, "No swap routes found.", IntV(END))
        ELSE MessageReply(update, ud, <<asked>>, "Found routes for your swap:",
                          IntV(AWAITING_SWAP_ROUTE))

handle_swap_route(update, ud, e) ==
    LET route_index == RouteIndex(Replace(update.data, <<"blockchain_", "swap_", "route_">>))
        swap_data == ud["swap"]
        popped == Pop(ud, "swap")
        sorry == EditText("Sorry, there was an error executing your swap.")
        asked == [fn |-> "swap_tokens", token_in |-> swap_data["token_in"],
                  token_out |-> swap_data["token_out"],
                  amount_in |-> swap_data["amount_in"]]
    IN  IF route_index.kind = "raise" \/ "swap" \notin DOMAIN ud
        THEN Handled(Return(IntV(END)), ud, <<sorry>>)
        ELSE IF {"token_in", "token_out", "amount_in"} \ DOMAIN swap_data # {}
        THEN Handled(Return(IntV(END)), popped, <<sorry>>)
        ELSE IF e.fail = "error"
        THEN Handled(Return(IntV(END)), popped, <<asked, sorry>>)
        ELSE Handled(Return(IntV(END)), popped,
                     <<asked, EditText("Swap transaction submitted!")>>)

cancel_swap(update, ud, e) ==
    MessageReply(update, Pop(ud, "swap"), <<>>,
                 "Swap cancelled. You can start over with /swap", IntV(END))

\* only the branches the conversations enter through are spelled out; the
\* other branches show an estimate or transactions and return None
handle_gas_action(update, ud, e) ==
    LET action == Replace(update.data, <<"blockchain_", "gas_">>)
    IN  IF action = <<"custom">>
        THEN Handled(Return(IntV(AWAITING_GAS_PRICE)), ud,
                     <<EditText("Enter custom gas price in gwei:")>>)
        ELSE Handled(Return(None), ud, <<>>)

\* a handler that requests the estimate without storing the price
handle_gas_price_input_unpriced(update, ud, e) ==
    LET gas_price == PyFloat(update.text)
        operation == ud["pending_operation"]
        asked == [fn |-> "estimate_gas", operation |-> operation["type"],
                  params |-> operation["params"], gas_price |-> gas_price.value]
    IN  IF gas_price.kind = "raise"
        THEN MessageReply(update, ud, <<>>,
                          "Please enter a valid number for gas price (in gwei):",
                          IntV(AWAITING_GAS_PRICE))
        ELSE IF "pending_operation" \notin DOMAIN ud \/ DOMAIN operation = {}
        THEN MessageReply(update, ud, <<>>, "No pending operation to estimate gas for.",
                          IntV(END))
        ELSE IF e.fail = "error"
        THEN Handled(Raise("Exception", <<"estimate_gas failed">>), ud, <<asked>>)
        ELSE MessageReply(update, ud, <<asked>>, "Gas Estimate (Custom Price)",
                          IntV(END))

handle_gas_price_input(update, ud, e) ==
    LET gas_price == PyFloat(update.text)
        operation == ud["pending_operation"]
        priced == Put(ud, "pending_operation", Put(operation, "gas_price", gas_price.value))
        asked == [fn |-> "estimate_gas", operation |-> operation["type"],
                  params |-> operation["params"], gas_price |-> gas_price.value]
    IN  IF gas_price.kind = "raise"
        THEN MessageReply(update, ud, <<>>,
                          "Please enter a valid number for gas price (in gwei):",
                          IntV(AWAITING_GAS_PRICE))
        ELSE IF "pending_operation" \notin DOMAIN ud \/ DOMAIN operation = {}
        THEN MessageReply(update, ud, <<>>, "No pending operation to estimate gas for.",
                          IntV(END))
        ELSE IF e.fail = "error"
        THEN Handled(Raise("Exception", <<"estimate_gas failed">>), priced, <<asked>>)
        ELSE MessageReply(update, priced, <<asked>>, "Gas Estimate (Custom Price)",
                          IntV(END))

handle_tx_action(update, ud, e) ==
    LET action == Replace(update.data, <<"blockchain_", "tx_">>)
    IN  IF action = <<"dates">>
        THEN Handled(Return(IntV(AWAITING_TX_DATES)), ud,
                     <<EditText("Please enter the start date (YYYY-MM-DD):")>>)
        ELSE Handled(Return(None), ud, <<>>)

handle_tx_date_input(update, ud, e) ==
    LET filtered == IF "tx_filter" \in DOMAIN ud THEN ud ELSE Put(ud, "tx_filter", EmptyDict)
        tx_filter == filtered["tx_filter"]
        date == Strptime(update.text)
        start_date == tx_filter["start_date"]
        asked == [fn |-> "get_transaction_history", start_date |-> start_date,
                  end_date |-> date.value]
        invalid == MessageReply(update, filtered, <<>>,
                                "Please enter a valid date in YYYY-MM-DD format:",
                                IntV(AWAITING_TX_DATES))
    IN  IF "start_date" \notin DOMAIN tx_filter
        THEN IF date.kind = "raise" THEN invalid
             ELSE MessageReply(update,
                               Put(filtered, "tx_filter",
                                   Put(tx_filter, "start_date", date.value)),
                               <<>>, "Please enter the end date (YYYY-MM-DD):",
                               IntV(AWAITING_TX_DATES))
        ELSE IF date.kind = "raise" THEN invalid
        ELSE IF DateLess(date.value, start_date)
        THEN MessageReply(update, filtered, <<>>, "End date must be after start date.",
                          IntV(AWAITING_TX_DATES))
        ELSE IF e.fail = "error"
        THEN Handled(Raise("Exception", <<"get_transaction_history failed">>),
                     filtered, <<asked>>)
        ELSE IF e.transactions = 0
        THEN MessageReply(update, filtered, <<asked>>,
                          "No transactions found in the specified date range.", IntV(END))
        ELSE MessageReply(update, Pop(filtered, "tx_filter"), <<asked>>, "Transactions",
                          IntV(END))

cleanup_operation(update, ud, e) ==
    MessageReply(update, Pop(Pop(Pop(ud, "pending_operation"), "tx_filter"), "swap"), <<>>,
                 "Operation cancelled. You can start over with /blockchain", IntV(END))

\* CommandHandler(c, ...), MessageHandler(filters.TEXT & ~filters.COMMAND, ...)
\* and CallbackQueryHandler(..., pattern) accept an update
IsCommand(update, c) == update.kind = "command" /\ update.command = c
IsText(update) == update.kind = "message"
IsCallback(update, prefix, anchored) ==
    update.kind = "callback_query" /\ Matches(prefix, anchored, update.data)

\* entry_points
EntryPoint(c, update) ==
    CASE c = "swap" /\ IsCommand(update, "swap") -> "swap_tokens"
      [] c = "gas" /\ IsCallback(update, <<"blockchain_", "gas_", "custom">>, TRUE)
            -> "handle_gas_action"
      [] c = "dates" /\ IsCallback(update, <<"blockchain_", "tx_", "dates">>, TRUE)
            -> "handle_tx_action"
      [] OTHER -> "none"

\* states[state]: the first handler of the state's list that accepts the update
StateHandler(c, state, update) ==
    CASE c = "swap" /\ state = AWAITING_SWAP_FROM_TOKEN
            /\ IsCallback(update, <<"blockchain_", "swap_", "from_">>, FALSE)
            -> "handle_swap_from_token"
      [] c = "swap" /\ state = AWAITING_SWAP_TO_TOKEN
            /\ IsCallback(update, <<"blockchain_", "swap_", "to_">>, FALSE)
            -> "handle_swap_to_token"
      [] c = "swap" /\ state = AWAITING_SWAP_AMOUNT /\ IsText(update)
            -> "handle_swap_amount"
      [] c = "swap" /\ state = AWAITING_SWAP_ROUTE
            /\ IsCallback(update, <<"blockchain_", "swap_", "route_">>, FALSE)
            -> "handle_swap_route"
      [] c = "swap" /\ state = AWAITING_SWAP_ROUTE
            /\ IsCallback(update, <<"blockchain_", "swap_", "cancel">>, TRUE)
            -> "cancel_swap"
      [] c = "gas" /\ state = AWAITING_GAS_PRICE /\ IsText(update)
            -> "handle_gas_price_input"
      [] c = "dates" /\ state = AWAITING_TX_DATES /\ IsText(update)
            -> "handle_tx_date_input"
      [] OTHER -> "none"

\* fallbacks, the same two in every conversation
Fallback(c, update) ==
    IF IsCommand(update, "cancel") \/ IsCallback(update, <<"blockchain_", "cancel">>, TRUE)
    THEN "cleanup_operation"
    ELSE "none"

\* ConversationHandler.check_update: a conversation that is not in progress
\* offers the update to its entry points only, one in progress to the handlers
\* of its state and then to its fallbacks
HandlerFor(c, state, update) ==
    IF state = END THEN EntryPoint(c, update)
    ELSE IF StateHandler(c, state, update) # "none" THEN StateHandler(c, state, update)
    ELSE Fallback(c, update)

Call(handler, update, ud, e) ==
    CASE handler = "swap_tokens" -> swap_tokens(update, ud, e)
      [] handler = "handle_swap_from_token" -> handle_swap_from_token(update, ud, e)
      [] handler = "handle_swap_to_token" -> handle_swap_to_token(update, ud, e)
      [] handler = "handle_swap_amount" -> handle_swap_amount(update, ud, e)
      [] handler = "handle_swap_route" -> handle_swap_route(update, ud, e)
      [] handler = "cancel_swap" -> cancel_swap(update, ud, e)
      [] handler = "handle_gas_action" -> handle_gas_action(update, ud, e)
      [] handler = "handle_gas_price_input" -> handle_gas_price_input(update, ud, e)
      [] handler = "handle_tx_action" -> handle_tx_action(update, ud, e)
      [] handler = "handle_tx_date_input" -> handle_tx_date_input(update, ud, e)
      [] handler = "cleanup_operation" -> cleanup_operation(update, ud, e)

\* ConversationHandler.handle_update: the handler's return value becomes the
\* conversation's state; None, and an exception, leave the state as it is
NewState(state, r) ==
    IF r.kind = "return" /\ r.value.t = "int" THEN r.value.v ELSE state

ConversationStep(c, state, update, ud, e) ==
    LET handler == HandlerFor(c, state, update)
        did == Call(handler, update, ud, e)
    IN  IF handler = "none"
        THEN [handler |-> "none", result |-> NoResult, before |-> state, state |-> state,
              given |-> ud, ud |-> ud, calls |-> <<>>]
        ELSE [handler |-> handler, result |-> did.result, before |-> state,
              state |-> NewState(state, did.result),
              given |-> ud, ud |-> did.ud, calls |-> did.calls]

\* the inputs of one user
BotCommands == {"swap", "cancel"}
BotCallbacks ==
    { <<"blockchain_", "swap_", "from_", "eth">>, <<"blockchain_", "swap_", "to_", "usdc">>,
      <<"blockchain_", "swap_", "route_", "0">>, <<"blockchain_", "swap_", "cancel">>,
      <<"blockchain_", "cancel">>, <<"blockchain_", "gas_", "custom">>,
      <<"blockchain_", "tx_", "dates">> }
BotTexts == {"1.5", "2", "2024-01-05", "2024-01-10"}

\* what blockchain_manager answers: the number of routes and of transactions
\* it finds, and whether its call fails
BotEnvs ==
    { [routes |-> 2, transactions |-> 1, fail |-> "none"],
      [routes |-> 0, transactions |-> 0, fail |-> "none"],
      [routes |-> 2, transactions |-> 1, fail |-> "error"] }

\* an operation waiting for its gas price, stored by the code that prepares a
\* transaction
PendingOperation == Put(Put(EmptyDict, "type", "transfer"), "params", "to=0x1234")

\* how far the user's inputs have followed the swap dialogue: 0 not begun,
\* 1 /swap sent, 2 from-token pressed, 3 to-token pressed, 4 amount entered and
\* routes offered, 5 route pressed
NoScript == [step |-> 0, token_in |-> <<>>, token_out |-> <<>>, amount |-> ""]
IsCancel(update) ==
    \/ IsCommand(update, "cancel")
    \/ IsCallback(update, <<"blockchain_", "cancel">>, TRUE)
    \/ IsCallback(update, <<"blockchain_", "swap_", "cancel">>, TRUE)
Followed(s, update, e) ==
    IF IsCommand(update, "swap") THEN [NoScript EXCEPT !.step = 1]
    ELSE IF IsCancel(update) \/ s.step = 5 THEN NoScript
    ELSE IF s.step = 1 /\ IsCallback(update, <<"blockchain_", "swap_", "from_">>, FALSE)
    THEN [s EXCEPT !.step = 2, !.token_in = SubSeq(update.data, 4, Len(update.data))]
    ELSE IF s.step = 2 /\ IsCallback(update, <<"blockchain_", "swap_", "to_">>, FALSE)
    THEN [s EXCEPT !.step = 3, !.token_out = SubSeq(update.data, 4, Len(update.data))]
    ELSE IF s.step = 3 /\ IsText(update) /\ update.text \in {"1.5", "2"} /\ e.fail = "none"
    THEN IF e.routes = 0 THEN NoScript
         ELSE [s EXCEPT !.step = 4, !.amount = update.text]
    ELSE IF s.step = 4 /\ IsCallback(update, <<"blockchain_", "swap_", "route_">>, FALSE)
    THEN [s EXCEPT !.step = 5]
    ELSE s

\* the valid dates the user has entered since the date-range conversation
\* began: how many (2 stands for two or more) and the first of them
NoDates == [count |-> 0, start |-> <<>>]
Entered(d, dates, update) ==
    IF dates.before = END
    THEN NoDates
    ELSE IF IsText(update) /\ Strptime(update.text).kind = "return"
    THEN [count |-> IF d.count = 0 THEN 1 ELSE 2,
          start |-> IF d.count = 0 THEN Strptime(update.text).value ELSE d.start]
    ELSE IF dates.state = END THEN NoDates
    ELSE d

BotInit ==
    /\ op = "none"
    /\ args = <<>>
    /\ env = <<>>
    /\ result = NoResult
    /\ calls = <<>>
    /\ network = None
    /\ provider = NoProviders
    /\ first = NotKept
    /\ conversations = [c \in {"swap", "gas", "dates"} |-> END]
    /\ user_data \in {EmptyDict, Put(EmptyDict, "pending_operation", PendingOperation)}
    /\ script = NoScript
    /\ entered = NoDates
    /\ NoFiles

\* Application.process_update: every ConversationHandler is offered the
\* update, in the order of the list; an exception in one handler is logged
\* and does not keep the update from the next
process_update(update, e) ==
    LET swap == ConversationStep("swap", conversations["swap"], update, user_data, e)
        gas == ConversationStep("gas", conversations["gas"], update, swap.ud, e)
        dates == ConversationStep("dates", conversations["dates"], update, gas.ud, e)
    IN  /\ op' = update.kind
        /\ args' = update
        /\ env' = e
        /\ conversations' = [c \in {"swap", "gas", "dates"} |->
                                CASE c = "swap" -> swap.state
                                  [] c = "gas" -> gas.state
                                  [] c = "dates" -> dates.state]
        /\ user_data' = dates.ud
        /\ calls' = swap.calls \o gas.calls \o dates.calls
        /\ result' = [c \in {"swap", "gas", "dates"} |->
                         CASE c = "swap" -> swap
                           [] c = "gas" -> gas
                           [] c = "dates" -> dates]
        /\ script' = Followed(script, update, e)
        /\ entered' = Entered(entered, dates, update)
        /\ UNCHANGED <<network, provider, first, files>>

command == \E c \in BotCommands, e \in BotEnvs : process_update(Command(c), e)

callback_query == \E data \in BotCallbacks, e \in BotEnvs : process_update(CallbackQuery(data), e)

message == \E text \in BotTexts, e \in BotEnvs : process_update(Message(text), e)

NextBot == command \/ callback_query \/ message

SpecBot == BotInit /\ [][NextBot]_vars

\* ------------------------------------------------------------------------
\* The beginner template's wallet functions (get_wallet_signer, save_wallet)
\* ------------------------------------------------------------------------
\* f"wallet_data_{network_id.replace('-', '_')}.txt"
SignerNetworks == {"base-sepolia", "base_sepolia", "base-mainnet"}
WalletDataFile(network_id) ==
    CASE network_id \in {"base-sepolia", "base_sepolia"} -> "wallet_data_base_sepolia.txt"
      [] network_id = "base-mainnet" -> "wallet_data_base_mainnet.txt"

\* a file that does not exist, one that holds no JSON, one that holds a dict
NoFile == [exists |-> FALSE]
InvalidFile == [exists |-> TRUE, json |-> "invalid"]
JsonFile(data) == [exists |-> TRUE, json |-> "dict", data |-> data]

\* dict.get(k)
DictGet(d, k) == IF k \in DOMAIN d THEN d[k] ELSE None

\* truthiness of None and of a str kept as its pieces
KeyTruthy(x) == x.t # "NoneType" /\ x.v # <<>>

\* Account.from_key(private_key): private keys are "0x" and 64 hex digits
HexTokens == {"a1a1", "b2b2"}
EnvKeys == {None, StrV(<<>>), StrV(<<"0x", "e5e5">>), StrV(<<"not-a-key">>)}
SignerFromKey(private_key) ==
    IF Len(private_key.v) = 2 /\ private_key.v[1] = "0x"
    THEN Return([t |-> "Account", key |-> private_key])
    ELSE Raise("ValueError", "The private key must be exactly 32 bytes long")

\* the wallet provider handed to get_wallet_signer
SmartWallet == [t |-> "SmartWalletProvider", address |-> "0xSmartWallet"]

SignerInit ==
    /\ op = "none"
    /\ args = <<>>
    /\ env = <<>>
    /\ result = NoResult
    /\ calls = <<>>
    /\ network = None
    /\ provider = NoProviders
    /\ first = NotKept
    /\ NoBot
    /\ files \in [{WalletDataFile(n) : n \in SignerNetworks} -> {NoFile, InvalidFile}]

get_wallet_signer ==
    \E network_id \in SignerNetworks, wallet_provider \in {None, SmartWallet},
       e \in [PRIVATE_KEY : EnvKeys, token_hex : HexTokens] :
        LET wallet_data_file == WalletDataFile(network_id)
            file == files[wallet_data_file]
            wallet_data == IF file.exists /\ file.json = "dict" THEN file.data
                           ELSE [private_key |-> None, smart_wallet_address |-> None]
            stored == DictGet(wallet_data, "private_key")
            given == IF KeyTruthy(stored) THEN stored ELSE e.PRIVATE_KEY
            private_key == IF KeyTruthy(given) THEN given
                           ELSE StrV(<<"0x", e.token_hex>>)
            signer == SignerFromKey(private_key)
            saved == JsonFile([private_key |-> private_key,
                               smart_wallet_address |-> StrV(wallet_provider.address)])
            saves == signer.kind = "return" /\ wallet_provider # None
        IN  /\ op' = "get_wallet_signer"
            /\ args' = [network_id |-> network_id, wallet_provider |-> wallet_provider]
            /\ env' = e
            /\ files' = IF saves THEN [files EXCEPT ![wallet_data_file] = saved] ELSE files
            /\ calls' = (IF file.exists /\ file.json = "invalid"
                         THEN <<[fn |-> "print", text |-> "Warning: Invalid wallet data file format",
                                 file |-> wallet_data_file]>>
                         ELSE <<>>)
                        \o (IF KeyTruthy(given) THEN <<>>
                            ELSE <<[fn |-> "print", text |-> "Created new private key and saved to",
                                    file |-> wallet_data_file]>>)
                        \o (IF saves
                            THEN <<[fn |-> "json.dump", text |-> "", file |-> wallet_data_file]>>
                            ELSE <<>>)
            /\ result' = signer
            /\ UNCHANGED <<network, provider, first, botvars>>

\* wallet_provider.export_wallet().to_dict() has no "private_key" entry
save_wallet ==
    \E network_id \in SignerNetworks :
        LET wallet_data_file == WalletDataFile(network_id)
        IN  /\ op' = "save_wallet"
            /\ args' = [network_id |-> network_id, wallet_provider |-> SmartWallet]
            /\ env' = <<>>
            /\ files' = [files EXCEPT ![wallet_data_file] =
                             JsonFile([wallet_id |-> StrV(<<"wallet-1">>),
                                       seed |-> StrV(<<"seed-1">>)])]
            /\ calls' = <<[fn |-> "f.write", text |-> "", file |-> wallet_data_file]>>
            /\ result' = Return(None)
            /\ UNCHANGED <<network, provider, first, botvars>>

NextSigner == get_wallet_signer \/ save_wallet

SpecSigner == SignerInit /\ [][NextSigner]_vars

\* ------------------------------------------------------------------------
\* Properties of the action boundary (Spec)
\* ------------------------------------------------------------------------
\* the arguments of the last invocation are not ones the action can use
InvalidArgs ==
    CASE op = "wallet.native_transfer" -> "value" \notin DOMAIN args
      [] op = "erc20.get_balance" -> "contract_address" \notin DOMAIN args
      [] op = "erc20.transfer" -> "amount" \notin DOMAIN args \/ PyInt(args.amount.v).kind = "raise"
      [] op = "cdp_api.request_faucet_funds" -> args.asset_id.t \notin {"str", "NoneType"}
      [] op = "cdp_api.address_reputation" -> "address" \notin DOMAIN args
      [] op = "allora.get_inference_by_topic_id" -> "topic_id" \notin DOMAIN args
      [] op = "opengradient.prompt" -> "prompt" \notin DOMAIN args.args
      [] op \in DeskOps -> \E d \in DeskActions :
                                "desk." \o d.name = op /\ ~(d.keys \subseteq DOMAIN args)
      [] OTHER -> FALSE

\* the wallet is on a network the action does not serve
UnsupportedNetwork ==
    CASE op = "cdp_api.request_faucet_funds" -> ~PyEq(network.network_id, StrV("base-sepolia"))
      [] op = "onramp.get_onramp_buy_url" ->
            /\ ~PyEq(network.network_id, StrV("base-sepolia"))
            /\ ~PyEq(network.network_id, StrV("base-mainnet"))
      [] OTHER -> FALSE

\* the wallet provider or the external SDK raised
CollaboratorRaised == op \in ActionOps /\ env.fail # "none"

\* a failure happened during the last invocation
Failed == InvalidArgs \/ UnsupportedNetwork \/ CollaboratorRaised

CatchingOps ==
    {"wallet.get_wallet_details", "wallet.get_balance", "wallet.native_transfer",
     "erc20.get_balance", "erc20.transfer", "cdp_api.address_reputation",
     "allora.get_all_topics", "opengradient.read_forecast", "opengradient.prompt"}

C4_TransferScalesAmount ==
    (/\ op = "erc20.transfer"
     /\ "amount" \in DOMAIN args
     /\ IsDecimalString(args.amount.v)
     /\ Len(RStripZeros(FracPart(args.amount.v))) <= env.decimals
     /\ env.fail = "none")
    => /\ Len(calls) = 2
       /\ calls[1].fn = "send_transaction"
       /\ calls[1].to = args.contract_address.v
       /\ calls[1].data.fn = "transfer"
       /\ calls[1].data.args[1] = args.destination.v
       /\ calls[1].data.args[2] * Pow10(Len(FracPart(args.amount.v)))
            = Numerator(args.amount.v) * Pow10(env.decimals)
       /\ calls[2].fn = "wait_for_transaction_receipt"
       /\ result.kind = "return"
       /\ result.value[1] = "Transferred "

\* the wallet is on base-sepolia, as wallet providers report that network
OnBaseSepolia ==
    /\ PyEq(network.network_id, StrV(BASE_SEPOLIA_NETWORK_ID))
    /\ PyEq(network.chain_id, StrV("84532"))

\* C5: request_faucet_funds makes one faucet request for the wallet address
\* and returns "Received <asset> from the faucet..." on base-sepolia, and
\* returns the faucet-only-on-base-sepolia error without a request
\* on every other network.
C5_FaucetIffBaseSepolia ==
    (op = "cdp_api.request_faucet_funds" /\ ~InvalidArgs /\ env.fail = "none")
    => IF OnBaseSepolia
       THEN /\ Len(calls) = 1
            /\ calls[1].fn = "faucet"
            /\ calls[1].address = MOCK_ADDRESS
            /\ result.kind = "return"
            /\ result.value[1] = "Received "
            /\ result.value[2] = (IF Truthy(args.asset_id) THEN args.asset_id.v ELSE "ETH")
       ELSE /\ calls = <<>>
            /\ result = Return(<<"Error", ": Faucet is only available on base-sepolia network">>)

Testnets == {"base-sepolia", "ethereum-sepolia", "solana-devnet"}

\* C6: CdpApiActionProvider.supports_network is True for the testnets and
\* False for the mainnets and for an unknown protocol family.
C6_SupportsTestnetsOnly ==
    op = "cdp_api.supports_network"
    => result = Return(/\ args.network.protocol_family \in {"evm", "svm"}
                       /\ Truthy(args.network.network_id)
                       /\ args.network.network_id.v \in Testnets)

\* C10: for string asset and timeframe, get_price_inference returns the
\* price inference text when the client answers and the "Error getting
\* price inference" text when it fails; it never raises.
C10_PriceInferenceNeverRaises ==
    (op = "allora.get_price_inference" /\ args.asset.t = "str" /\ args.timeframe.t = "str")
    => /\ result.kind = "return"
       /\ env.fail = "none" => result.value[1] = "The price inference for "
       /\ env.fail # "none" => /\ StartsWithError(result)
                               /\ result.value[2] = " getting price inference for "

OnrampNetworks == {"base-mainnet", "base-sepolia"}

\* C12: get_onramp_buy_url raises ValueError "Network ID is not set" when the
\* wallet's network has no network id and ValueError "Network ID is not
\* supported" when the id is neither base-mainnet nor base-sepolia; it
\* returns a URL only on those two networks, with defaultNetwork "base" for
\* base-mainnet and "base-sepolia" for base-sepolia.
C12_OnrampNetworkErrors ==
    op = "onramp.get_onramp_buy_url"
    => /\ result.kind = "return" =>
            /\ Truthy(network.network_id)
            /\ network.network_id.v \in OnrampNetworks
       /\ env.fail = "none" =>
            IF ~Truthy(network.network_id)
            THEN result = Raise("ValueError", "Network ID is not set")
            ELSE IF network.network_id.v \notin OnrampNetworks
            THEN result = Raise("ValueError", "Network ID is not supported")
            ELSE /\ result.kind = "return"
                 /\ result.value[1] = "ONRAMP_BUY_URL"
                 /\ result.value[3].defaultNetwork =
                        (IF network.network_id.v = "base-mainnet" THEN "base" ELSE "base-sepolia")

\* a wallet on base-mainnet was given a URL whose defaultNetwork is "base"
C12_Witness ==
    /\ op = "onramp.get_onramp_buy_url"
    /\ PyEq(network.network_id, StrV("base-mainnet"))
    /\ result.kind = "return"
    /\ result.value[3].defaultNetwork = "base"

\* C24: when supports_network has returned True for the network the wallet
\* is on, get_onramp_buy_url called next, with the wallet provider answering,
\* returns a purchase URL
C24_OnrampSupportAgreesWithAction ==
    [][(/\ op = "onramp.supports_network"
        /\ args.network = network
        /\ result = Return(TRUE)
        /\ op' = "onramp.get_onramp_buy_url"
        /\ env'.fail = "none")
       => (result'.kind = "return" /\ result'.value[1] = "ONRAMP_BUY_URL")]_vars

\* the clients DeskActionProvider.__init__ created
DeskClients == {calls[i].fn : i \in 1..Len(calls)} \cap {"Auth", "Info", "Exchange"}

\* C13: constructing a DeskActionProvider with an empty private key, an empty
\* chain id, a chain id outside SUPPORTED_CHAINS or an empty sub-account id
\* raises ValueError "Failed to initialize DESK client: ..." and creates no
\* Auth, Info or Exchange client.
C13_DeskInitRejects ==
    (/\ op = "desk.__init__"
     /\ \/ PyEq(args.private_key, StrV(""))
        \/ PyEq(args.chain_id, StrV(""))
        \/ ~(args.chain_id.t = "str" /\ args.chain_id.v \in SUPPORTED_CHAINS)
        \/ (args.sub_account_id.t = "str" /\ Len(args.sub_account_id.v) = 0))
    => /\ result.kind = "raise"
       /\ result.exc = "ValueError"
       /\ result.msg[1] = "Failed to initialize DESK client: "
       /\ DeskClients = {}
       /\ provider.desk = Unconstructed

\* a construction with a valid key and sub-account on chain "1" was refused
C13_Witness ==
    /\ op = "desk.__init__"
    /\ PyEq(args.private_key, StrV(MOCK_PRIVATE_KEY))
    /\ PyEq(args.chain_id, StrV("1"))
    /\ args.sub_account_id = IntV(1)
    /\ result.kind = "raise"
    /\ result.exc = "ValueError"
    /\ calls = <<>>

\* C14: a successfully constructed DeskActionProvider has network "mainnet"
\* exactly when its chain id is Base's (8453) and "testnet" for every other
\* supported chain id; its rpc_url is the caller's when one is given and
\* otherwise the default RPC URL of that chain (Base for mainnet, Arbitrum
\* Sepolia for testnet).
C14_DeskNetworkAndRpcUrl ==
    (op = "desk.__init__" /\ result.kind = "return")
    => /\ provider.desk.constructed
       /\ args.chain_id.v \in SUPPORTED_CHAINS
       /\ provider.desk.network = (IF args.chain_id.v = "8453" THEN "mainnet" ELSE "testnet")
       /\ provider.desk.rpc_url =
            (IF args.rpc_url.t = "str" /\ args.rpc_url.v # "" THEN args.rpc_url.v
             ELSE IF provider.desk.network = "mainnet" THEN DefaultRpcUrl("8453")
             ELSE DefaultRpcUrl("421614"))

\* a provider constructed for Base with the caller's RPC URL
C14_Witness ==
    /\ op = "desk.__init__"
    /\ result.kind = "return"
    /\ PyEq(args.chain_id, StrV("8453"))
    /\ PyEq(args.rpc_url, StrV(MOCK_RPC_URL))
    /\ provider.desk.network = "mainnet"
    /\ provider.desk.rpc_url = MOCK_RPC_URL

\* the version string "0.8.<n>"
PatchVersion(n) ==
    "0.8." \o (IF n < 10 THEN Digits[n + 1] ELSE Digits[(n \div 10) + 1] \o Digits[(n % 10) + 1])

AcceptedVersions == {PatchVersion(n) : n \in 0..28}

\* C15: deploy_contract calls the wallet's deploy_contract exactly when
\* solidity_version is one of 0.8.0 .. 0.8.28 (every patch version of the
\* range is accepted); for any other version string it returns a string that
\* starts with "Error deploying contract:" and makes no deployment call.
C15_DeploysSupportedVersionsOnly ==
    op = "deploy_contract"
    => IF args.solidity_version \in AcceptedVersions
       THEN /\ Len(calls) = 1
            /\ calls[1].fn = "deploy_contract"
            /\ calls[1].solidity_version[1] = args.solidity_version
            /\ env.fail = "none" => result.kind = "return" /\ result.value[1] = "Deployed contract "
       ELSE /\ calls = <<>>
            /\ StartsWithError(result)
            /\ result.value[2] = " deploying contract: "

\* version 0.8.9 was deployed with its compiler, version 0.8.29 would be next
C15_Witness ==
    /\ op = "deploy_contract"
    /\ args.solidity_version = "0.8.9"
    /\ Len(calls) = 1
    /\ calls[1].solidity_version = <<"0.8.9", "+commit.", "e5eed63a">>
    /\ result.kind = "return"
    /\ result.value[1] = "Deployed contract "

\* the invocation just made has the action, arguments and collaborator
\* answers of the first one
RepeatsFirst ==
    /\ first.recorded
    /\ first.op = op'
    /\ first.args = args'
    /\ first.env = env'

CompassMainnets == {"base-mainnet", "arbitrum-mainnet", "ethereum-mainnet"}

\* C11: CompassActionProvider.supports_network returns True exactly for
\* Base, Arbitrum and Ethereum mainnet and False for every other network,
\* a missing chain id or a missing or unknown network id included; it never
\* raises.
C11_CompassSupportsMainnets ==
    op = "compass.supports_network"
    => result = Return(/\ Truthy(args.network.network_id)
                       /\ args.network.network_id.v \in CompassMainnets)

\* ------------------------------------------------------------------------
\* Properties of SmartWalletProvider (SpecWallet)
\* ------------------------------------------------------------------------
\* C7: send_transaction and native_transfer submit exactly one user operation
\* holding one call, and return its transaction hash if it completes or
\* raise "Transaction failed" if it does not.
C7_OneOperationHashOrFailure ==
    op \in {"send_transaction", "native_transfer"}
    => /\ Len(calls) = 1
       /\ calls[1].fn = "send_user_operation"
       /\ Len(calls[1].calls) = 1
       /\ op = "send_transaction" =>
            /\ calls[1].calls[1].to = args.transaction.to
            /\ calls[1].calls[1].value = Get(args.transaction, "value", Sci(0, 0))
            /\ "data" \in DOMAIN args.transaction => calls[1].calls[1].data = args.transaction.data
       /\ env.status = "complete" => result = Return(env.transaction_hash)
       /\ env.status # "complete" => /\ result.kind = "raise"
                                      /\ result.msg = "Transaction failed"

\* C8: native_transfer(to, value) sends one call to `to` carrying
\* value * 10^18 wei with data "0x".
C8_NativeTransferInWei ==
    op = "native_transfer"
    => /\ Len(calls) = 1
       /\ Len(calls[1].calls) = 1
       /\ calls[1].calls[1].to = args.to
       /\ calls[1].calls[1].value = to_wei(args.value)
       /\ "data" \in DOMAIN calls[1].calls[1]
       /\ calls[1].calls[1].data = StrV("0x")

SignOps == {"sign_message", "sign_typed_data", "sign_transaction"}

\* C9: sign_message, sign_typed_data and sign_transaction raise
\* NotImplementedError for every input and submit no user operation.
C9_SigningNotImplemented ==
    op \in SignOps => /\ result.kind = "raise"
                      /\ result.exc = "NotImplementedError"
                      /\ calls = <<>>

\* sign_message was called with a message and raised
C9_Witness ==
    /\ op = "sign_message"
    /\ args.message = "Hello, world!"
    /\ result.kind = "raise"
    /\ result.exc = "NotImplementedError"

\* ------------------------------------------------------------------------
\* Properties of the Telegram conversations (SpecBot)
\* ------------------------------------------------------------------------
\* the state of the swap conversation after each step of the dialogue
SwapStateAfter ==
    <<AWAITING_SWAP_FROM_TOKEN, AWAITING_SWAP_TO_TOKEN, AWAITING_SWAP_AMOUNT,
      AWAITING_SWAP_ROUTE, END>>

\* C17: a swap conversation started by /swap is in AWAITING_SWAP_FROM_TOKEN,
\* and every accepted input (from-token, to-token, amount, route) moves it one
\* state forward, in this order, until the route selection ends it
C17_SwapAdvancesInOrder ==
    script.step \in 1..5 => conversations["swap"] = SwapStateAfter[script.step]

\* the calls of the last update that went to blockchain_manager.swap_tokens
SwapCalls == {i \in DOMAIN calls : calls[i].fn = "swap_tokens"}

\* C18: when the user has chosen both tokens, entered an amount and selects a
\* route, and blockchain_manager does not fail, swap_tokens is called exactly
\* once with these tokens and this amount and the user is told that the
\* transaction was submitted
C18_RouteSelectionExecutesSwap ==
    (script.step = 5 /\ env.fail = "none") =>
        /\ Cardinality(SwapCalls) = 1
        /\ \A i \in SwapCalls :
            /\ calls[i].token_in = script.token_in
            /\ calls[i].token_out = script.token_out
            /\ calls[i].amount_in \in {script.amount,
                                        PyStrFloat(PyFloat(script.amount).value)}
        /\ \E i \in DOMAIN calls : calls[i] = EditText("Swap transaction submitted!")

\* the cancel paths of a conversation that is in the given state
CancelPath(c, state, update) ==
    /\ state # END
    /\ \/ IsCommand(update, "cancel")
       \/ IsCallback(update, <<"blockchain_", "cancel">>, TRUE)
       \/ /\ c = "swap"
          /\ state = AWAITING_SWAP_ROUTE
          /\ IsCallback(update, <<"blockchain_", "swap_", "cancel">>, TRUE)

\* the handler told the user that the conversation was cancelled
ToldCancelled(c) ==
    \E i \in DOMAIN result[c].calls :
        result[c].calls[i].text \in {"Swap cancelled. You can start over with /swap",
                                     "Operation cancelled. You can start over with /blockchain"}

\* C19: an update on a cancel path of a conversation in progress leaves that
\* conversation ended, after the user was told that it was cancelled
C19_CancelEndsConversation ==
    op \in {"command", "callback_query", "message"} =>
        \A c \in {"swap", "gas", "dates"} :
            CancelPath(c, result[c].before, args) =>
                conversations[c] = END /\ ToldCancelled(c)

\* the user_data entry each conversation relies on
Relies == [swap |-> "swap", gas |-> "pending_operation", dates |-> "tx_filter"]

\* the entry of a key: empty when the key is missing
Entry(ud, k) == IF k \in DOMAIN ud THEN <<ud[k]>> ELSE <<>>

\* C20: the handler one conversation runs for an update neither removes nor
\* changes the user_data entry of another conversation that is in progress
\* before and after the update
C20_ConversationsShareNoState ==
    op \in {"command", "callback_query", "message"} =>
        \A c, d \in {"swap", "gas", "dates"} :
            (c # d /\ result[d].before # END /\ conversations[d] # END) =>
                Entry(result[c].given, Relies[d]) = Entry(result[c].ud, Relies[d])

\* the last update was a valid date given to the date-range conversation
DateInput ==
    /\ op = "message"
    /\ result["dates"].handler = "handle_tx_date_input"
    /\ Strptime(args.text).kind = "return"

\* the queries of the transaction history the last update made
Queries == {i \in DOMAIN calls : calls[i].fn = "get_transaction_history"}

\* the start date user_data holds
StoredStart ==
    IF "tx_filter" \in DOMAIN user_data /\ "start_date" \in DOMAIN user_data["tx_filter"]
    THEN <<user_data["tx_filter"]["start_date"]>>
    ELSE <<>>

\* C21: in a date-range conversation the first valid date is stored as the
\* start date without a query; a later valid date is the end date: when it is
\* not earlier than the start date the history is queried once, from the first
\* date to this one, and when it is earlier nothing is queried, the state
\* stays AWAITING_TX_DATES and the stored start date is kept; nothing else
\* queries the history
C21_DateRangeInOrder ==
    op \in {"command", "callback_query", "message"} =>
        /\ Queries # {} => DateInput /\ entered.count = 2
        /\ (DateInput /\ entered.count = 1) =>
            /\ StoredStart = <<Strptime(args.text).value>>
            /\ conversations["dates"] = AWAITING_TX_DATES
        /\ (DateInput /\ entered.count = 2
                /\ ~DateLess(Strptime(args.text).value, entered.start)) =>
            /\ Cardinality(Queries) = 1
            /\ \A i \in Queries :
                /\ calls[i].start_date = entered.start
                /\ calls[i].end_date = Strptime(args.text).value
        /\ (DateInput /\ entered.count = 2
                /\ DateLess(Strptime(args.text).value, entered.start)) =>
            /\ conversations["dates"] = AWAITING_TX_DATES
            /\ StoredStart = <<entered.start>>

\* the last update was a text given to handle_gas_price_input, which the
\* gas-price conversation runs in state AWAITING_GAS_PRICE only
GasInput ==
    /\ op = "message"
    /\ result["gas"].handler = "handle_gas_price_input"
    /\ result["gas"].before = AWAITING_GAS_PRICE

\* the text is a number / an operation is pending when the handler starts
GasNumeric == PyFloat(args.text).kind = "return"
GasPending ==
    /\ "pending_operation" \in DOMAIN result["gas"].given
    /\ DOMAIN result["gas"].given["pending_operation"] # {}

\* the estimates the handler requested
GasEstimates ==
    {i \in DOMAIN result["gas"].calls : result["gas"].calls[i].fn = "estimate_gas"}

\* a numeric text with a pending operation stores the number as the
\* operation's gas_price and requests one estimate with it
GasPriced ==
    (GasInput /\ GasNumeric /\ GasPending) =>
        /\ "pending_operation" \in DOMAIN user_data
        /\ "gas_price" \in DOMAIN user_data["pending_operation"]
        /\ user_data["pending_operation"]["gas_price"] = PyFloat(args.text).value
        /\ Cardinality(GasEstimates) = 1
        /\ \A i \in GasEstimates :
            /\ result["gas"].calls[i].gas_price = PyFloat(args.text).value
            /\ result["gas"].calls[i].operation
                    = result["gas"].given["pending_operation"]["type"]
            /\ result["gas"].calls[i].params
                    = result["gas"].given["pending_operation"]["params"]

\* a numeric text without a pending operation ends the conversation without
\* an estimate; a text that is no number keeps the state and the user data
GasOtherwise ==
    /\ (GasInput /\ GasNumeric /\ ~GasPending) =>
        /\ conversations["gas"] = END
        /\ GasEstimates = {}
    /\ (GasInput /\ ~GasNumeric) =>
        /\ conversations["gas"] = AWAITING_GAS_PRICE
        /\ result["gas"].ud = result["gas"].given
        /\ GasEstimates = {}

GeneratedKey ==
    /\ op = "get_wallet_signer"
    /\ result.kind = "return"
    /\ \E i \in DOMAIN calls : calls[i].text = "Created new private key and saved to"

\* C23: when a call of get_wallet_signer has generated a new private key for
\* a network, the next call for the same network with the same environment
\* returns a signer for the same private key
C23_GeneratedKeyPersists ==
    [][(/\ GeneratedKey
        /\ op' = "get_wallet_signer"
        /\ args'.network_id = args.network_id
        /\ env'.PRIVATE_KEY = env.PRIVATE_KEY)
       => (result'.kind = "return" /\ result'.value.key = result.value.key)]_vars

====
